---- MODULE Spec2Model ----
(***************************************************************************)
(* pyarchy: the mutation-guarded pool (ObjectPool in src/core.py, ItemPool *)
(* in src/pyarchy/data.py), the condition gate (MetaConditional,           *)
(* ConditionalObject) and the event registry (Event, EventPool).           *)
(*                                                                         *)
(* One EventPool is modelled.  The variable base says which of the two     *)
(* pool implementations of the repository it is built on: "ObjectPool"     *)
(* (src/events.py over src/core.py) or "ItemPool" (src/pyarchy/events.py   *)
(* over src/pyarchy/data.py).  Every method is modelled by what a call of  *)
(* it does, exceptions included: a call ends "ok" or with the name of the  *)
(* exception it raises.  Of a second EventPool, the argument of update and *)
(* disjoint, only the elements are kept (other_objects).                   *)
(*                                                                         *)
(* src/core.py applies @strict_arg at line 225 although it imports only    *)
(* the module utils, so importing src/core.py as written raises NameError. *)
(* The methods are modelled as they behave once that name is bound to      *)
(* utils.strict_arg.                                                       *)
(*                                                                         *)
(* Beside the pool: an object gated by Conditional or ConditionalObject    *)
(* (gated), NamedObject and its name validation (named), threads calling   *)
(* add and writing the protected flag (threads), classes whose metaclass   *)
(* is MetaSingleton (singleton) and a RotarySwitch (rotary).  Each has a   *)
(* specification of its own.                                               *)
(***************************************************************************)
EXTENDS Integers, Sequences, FiniteSets, TLC

\* Bound: how many events are ever constructed.
MaxEvents == 3

\* Bound: how many registrations the registration history records.
MaxRegs == 3

\* Bound: how long the names handed to the name validation are.
MaxLen == 3

\* Bound: how many times the constructor of one singleton class is run.
MaxRuns == 3

\* Bound: the largest num_positions a RotarySwitch is constructed with.
MaxPositions == 3

-----------------------------------------------------------------------------
(* Values *)

\* Identities of the Event instances; ids are handed out in order of
\* construction.
Events == 1..MaxEvents

\* A plain core.Object: an object that is not an instance of Event.
Junk == 0

\* Python's None where an object is expected.
NoObj == Junk - 1

Bases == {"ObjectPool", "ItemPool"}

\* Event subclasses defined by client code.  PingA and PingB both carry the
\* class-level _name "Ping"; Quiet carries "Quiet" and keeps the inherited
\* payload (pass).
EventClasses == {"PingA", "PingB", "Quiet"}
NoClass == "NoClass"

\* What client code passes to Event.handler: the two Ping classes, a plain
\* function mkQuiet (def mkQuiet(): return Quiet()), the string 'Ping', and
\* the integer 42.
RegInputs == {"PingA", "PingB", "mkQuiet", "'Ping'", "42"}
NoHandler == "NoHandler"

\* Keys that EventPool.create is called with.
Names == {"Ping", "mkQuiet", "NoSuchEvent"}

\* A plain function that returns an object that is not an event
\* (def mkJunk(): return Object()), registered under its own name.
JunkFactory == "mkJunk"

\* The keys of the handler table.
Keys == Names \cup {JunkFactory}

\* Values assigned to a boolean property: True, False and the integer 1.
FlagInputs == {"True", "False", "1"}

\* Arguments given to filter and clear: three functions, a non-function (3)
\* and None.
FnInputs == {"always", "never", "isPermitted", "3", "None"}

\* Exceptions.  The two freeze errors are both UserWarning and differ in
\* their message.
FrozenElements == "UserWarning: cannot modify pool elements"
FrozenPool == "UserWarning: cannot modify pool"

\* Classes whose metaclass is MetaSingleton: A, its subclass B, C, its
\* subclass D, and F, whose instances are false in a condition (F defines
\* __len__, and it returns 0).
SingletonClasses == {"A", "B", "C", "D", "F"}
NoInstance == [cls |-> "None", k |-> 0]

\* What is assigned to the state of a switch: an int, or a str.
IntState(i) == [type |-> "int", val |-> i]
StateInputs == {IntState(i) : i \in (0 - 2)..(MaxPositions + 2)}
               \cup {[type |-> "str", val |-> 0]}

\* The threads that share the pool.
Threads == {"t1", "t2"}

VARIABLES
    base,       \* which pool implementation the EventPool is built on
    objects,    \* ObjectPool.__objects / ItemPool.__objects
    protected,  \* ObjectPool.__protected
    readonly,   \* ObjectPool.__readonly
    handlers,   \* Event._handlers, NoHandler where the key is absent
    cls,        \* class of each constructed event, NoClass before that
    timestamp,  \* TimedObject.__timestamp of each event
    permitted,  \* Event.__permitted of each event
    clock,      \* the latest reading of time.time()
    regLog,     \* history: the arguments of the calls of Event.handler that returned
    other_objects, \* ObjectPool.__objects / ItemPool.__objects of a second EventPool
    gated,      \* an instance of a subclass of Conditional or ConditionalObject
    named,      \* a NamedObject and the latest call of its name validation
    threads,    \* the threads that call the pool: where each is in its call
    singleton,  \* the classes whose metaclass is MetaSingleton, and their calls
    rotary,     \* a RotarySwitch
    last        \* the latest call: what it was, how it ended, what it returned

\* The pool, its events and the registry.
pool_vars == <<base, objects, protected, readonly, handlers, cls, timestamp,
               permitted, clock, regLog, other_objects>>

\* The objects that are no part of the pool.
rest == <<gated, named, threads, singleton, rotary>>

\* All of the state but the gated object and the latest call.
but_gated == <<pool_vars, named, threads, singleton, rotary>>

\* All of the state but the named object and the latest call.
but_named == <<pool_vars, gated, threads, singleton, rotary>>

\* The objects that are no part of the pool, but the threads.
rest_but_threads == <<gated, named, singleton, rotary>>

vars == <<pool_vars, rest, last>>

Created == {e \in Events : cls[e] # NoClass}

NextId == Cardinality(Created) + 1

-----------------------------------------------------------------------------
(* Sequences *)

Reverse(s) == [i \in 1..Len(s) |-> s[Len(s) + 1 - i]]

\* Every order in which the elements of the set S can be listed.
Orders(S) ==
    {s \in [1..Cardinality(S) -> S] : \A i, j \in 1..Cardinality(S) : i # j => s[i] # s[j]}

Range(s) == {s[i] : i \in 1..Len(s)}

-----------------------------------------------------------------------------
(* Argument checks: utils.strict_arg and utils.StrictArg *)

\* Python types of the argument values used here.
TypeOfFlag(v) == IF v \in {"True", "False"} THEN "bool" ELSE "int"
TypeOfFn(f) == IF f \in {"always", "never", "isPermitted"} THEN "function"
               ELSE IF f = "None" THEN "NoneType" ELSE "int"

IndexOf(names, n) == CHOOSE i \in 1..Len(names) : names[i] = n

\* strict_arg(arg_name, arg_types)(func) called with the positional
\* arguments whose types are argtypes: "call" when func is called,
\* otherwise the exception raised.  No call of the model passes keywords.
strict_arg(arg_name, arg_type, wrapped_args, argtypes) ==
    LET arg_index == IndexOf(wrapped_args, arg_name)
    IN  IF Len(argtypes) >= arg_index
        THEN IF argtypes[arg_index] # arg_type THEN "TypeError" ELSE "call"
        ELSE "call"

RECURSIVE StrictArgScan(_, _, _, _, _)
StrictArgScan(name, type, arg_names, argtypes, i) ==
    IF i > Len(argtypes) \/ i > Len(arg_names)
    THEN "KeyError"            \* kwargs[self.__name] with no keywords given
    ELSE IF arg_names[i] = name
         THEN IF argtypes[i] = type THEN "call" ELSE "TypeError"
         ELSE StrictArgScan(name, type, arg_names, argtypes, i + 1)

\* StrictArg.wrapper.__call__ with the positional arguments whose types are
\* argtypes.
StrictArg(name, type, arg_names, argtypes) ==
    StrictArgScan(name, type, arg_names, argtypes, 1)

\* Mutant: the setter is not decorated and stores whatever it is given.
BoolSetter_unchecked(owner, v) == "call"

\* A property setter (self, mode) declared bool, assigned the value v.  The
\* property hands the owner to the setter in both implementations.
BoolSetter(owner, v) ==
    IF base = "ObjectPool"
    THEN strict_arg("mode", "bool", <<"self", "mode">>, <<owner, TypeOfFlag(v)>>)
    ELSE StrictArg("mode", "bool", <<"self", "mode">>, <<owner, TypeOfFlag(v)>>)

-----------------------------------------------------------------------------
(* The outcome of a pool method: the pool's elements afterwards, "ok" or   *)
(* the exception, the returned object, and the elements of a returned pool *)

Ok(objs, ret) == [objs |-> objs, err |-> "ok", ret |-> ret, pool |-> {}]

Raise(kind) == [objs |-> objects, err |-> kind, ret |-> NoObj, pool |-> {}]

\* isinstance(obj, self.object_type), object_type = Event.
isinstance_Event(obj) == obj \in Created

\* What the type check of add and remove raises: ObjectPool raises TypeError
\* itself; ItemPool calls raise_type_error, a name data.py never imports.
WrongType == IF base = "ObjectPool" THEN "TypeError" ELSE "NameError"

\* Mutant: the element guard reads the pool flag.
protect_objects_reads_readonly(inner) ==
    IF readonly THEN Raise(FrozenElements) ELSE inner

protect_objects(inner) ==
    IF protected THEN Raise(FrozenElements) ELSE inner

\* Mutant: the pool guard reads the element flag.
protect_pool_reads_protected(inner) ==
    IF protected THEN Raise(FrozenPool) ELSE inner

protect_pool(inner) ==
    IF readonly THEN Raise(FrozenPool) ELSE inner

\* Mutant: add takes any object, its type unchecked.
add_unchecked(obj) ==
    protect_objects(Ok(objects \cup {obj}, NoObj))

\* Mutant: add toggles membership (symmetric_difference_update).
add_toggles(obj) ==
    protect_objects(
        IF ~isinstance_Event(obj)
        THEN Raise(WrongType)
        ELSE Ok((objects \ {obj}) \cup ({obj} \ objects), NoObj))

add(obj) ==
    protect_objects(
        IF ~isinstance_Event(obj)
        THEN Raise(WrongType)
        ELSE Ok(objects \cup {obj}, NoObj))

remove(obj) ==
    IF ~isinstance_Event(obj)
    THEN Raise(WrongType)
    ELSE IF obj \notin objects
         THEN Raise("KeyError")       \* set.remove of an absent element
         ELSE Ok(objects \ {obj}, NoObj)

\* The pools handed to update: "other" is the second EventPool, "plain" a
\* pool of the base class (ObjectPool() / ItemPool()), whose elements are not
\* events.
PoolArgs == {<<>>, <<"other">>, <<"plain">>, <<"other", "plain">>}

\* isinstance(p, self.__class__), self being an EventPool.
isinstance_EventPool(p) == p = "other"

\* self.strict is an attribute no class defines.
HasAttr_strict == FALSE

\* pool.objects: the set is kept under the mangled name __objects, and no
\* class defines a property objects.
HasAttr_objects == FALSE

\* The elements of a pool handed to update.
ObjectsOf(p) == IF p = "other" THEN other_objects ELSE {Junk}

\* update(*pools): the condition reads self.strict before anything else.
update(pools) ==
    protect_pool(
        IF ~HasAttr_strict
        THEN Raise("AttributeError")
        ELSE IF \E i \in 1..Len(pools) : ~isinstance_EventPool(pools[i])
             THEN Raise("TypeError")
             ELSE IF pools # <<>> /\ ~HasAttr_objects
                  THEN Raise("AttributeError")
                  ELSE Ok(objects \cup UNION {ObjectsOf(pools[i]) : i \in 1..Len(pools)}, NoObj))

\* Mutant: the elements of other that the pool lacks are taken in
\* (symmetric_difference_update).
disjoint_symmetric(other) ==
    protect_pool(Ok((objects \ other) \cup (other \ objects), NoObj))

\* disjoint(pool): other is what iterating the argument yields.
disjoint(other) ==
    protect_pool(Ok(objects \ other, NoObj))

\* The functions handed to filter and clear.
Holds(fn, e) ==
    CASE fn = "always" -> TRUE
      [] fn = "never" -> FALSE
      [] fn = "isPermitted" -> permitted[e]
      [] OTHER -> FALSE

\* ObjectPool.__init__ / ItemPool.__init__ with pre-seeded objects: the
\* generator's condition names e, which is not defined, so the constructor
\* raises NameError as soon as there is one object to test.
PoolInit(objs) ==
    IF objs = {}
    THEN [objs |-> objects, err |-> "ok", ret |-> NoObj, pool |-> {}]
    ELSE Raise("NameError")

\* What EventPool.__init__ raises for an object that is not an event:
\* raise_type_error, a name src/events.py never imports, or the TypeError
\* that raise_type_error raises in src/pyarchy.
PreseedWrongType == IF base = "ObjectPool" THEN "NameError" ELSE "TypeError"

\* EventPool.__init__(name, *events): the elements of the pool constructed
\* are in the field pool.
EventPool_init(events) ==
    IF \E o \in events : ~isinstance_Event(o)
    THEN Raise(PreseedWrongType)
    ELSE PoolInit(events)

\* class Object defines no __init__: Object(dummy=True) raises TypeError.
Object_accepts_keywords == FALSE

\* Whether func(probe) is None: the functions handed to filter are
\* predicates and return a boolean.
ProbeReturnsNone(fn) == FALSE

filter(fn) ==
    IF base = "ObjectPool"
    THEN \* bound method: strict_arg sees (self, func)
         IF strict_arg("func", "function", <<"self", "func">>, <<"pool", TypeOfFn(fn)>>) # "call"
         THEN Raise("TypeError")
         ELSE IF ~Object_accepts_keywords
              THEN Raise("TypeError")
              ELSE IF ~ProbeReturnsNone(fn)
                   THEN Raise("UserWarning: cannot modify elements with filter")
                   ELSE PoolInit({e \in objects : Holds(fn, e)})
    ELSE \* StrictArg.wrapper is no descriptor: it is called without self
         LET r == StrictArg("func", "function", <<"self", "func">>, <<TypeOfFn(fn)>>)
         IN  IF r # "call"
             THEN Raise(r)
             ELSE PoolInit({e \in objects : Holds(fn, e)})

callable(fn) == TypeOfFn(fn) = "function"

clear(fn) ==
    protect_pool(
        IF callable(fn)
        THEN LET f == filter(fn)
             IN  IF f.err # "ok"
                 THEN Raise(f.err)
                 ELSE Ok(objects \ f.pool, NoObj)
        ELSE Ok({}, NoObj))

-----------------------------------------------------------------------------
(* Ordering: TimedObject.__lt__, sorted(), EventPool.__iter__ *)

TimedObject_lt(a, b) == timestamp[a] < timestamp[b]

\* s is sorted ascending; x goes after every element that is not greater
\* than it (a stable insertion, as sorted() is stable).
RECURSIVE InsertSorted(_, _)
InsertSorted(s, x) ==
    IF s = <<>>
    THEN <<x>>
    ELSE IF TimedObject_lt(x, Head(s))
         THEN <<x>> \o s
         ELSE <<Head(s)>> \o InsertSorted(Tail(s), x)

RECURSIVE SortAscending(_)
SortAscending(s) ==
    IF s = <<>>
    THEN <<>>
    ELSE InsertSorted(SortAscending(SubSeq(s, 1, Len(s) - 1)), s[Len(s)])

\* sorted(objs, reverse=True): the list is reversed, sorted stably in
\* ascending order, and reversed again.
sorted_reverse(s) == Reverse(SortAscending(Reverse(s)))

\* Mutant: the events are yielded as the underlying set lists them.
EventPool_iter_unsorted(order) == order

\* EventPool.__iter__, order being the order in which the underlying set
\* lists its elements.
EventPool_iter(order) == sorted_reverse(order)

\* self[-1]: ObjectPool has no __getitem__; ItemPool takes list(self)[-1].
HasGetItem == base = "ItemPool"

\* Mutant: pop on an empty pool returns None instead of raising.
pop_empty_returns_none(order) ==
    protect_pool(
        IF Cardinality(objects) > 0
        THEN IF ~HasGetItem
             THEN Raise("TypeError")
             ELSE Ok(objects \ {EventPool_iter(order)[Len(order)]}, EventPool_iter(order)[Len(order)])
        ELSE Ok(objects, NoObj))

pop(order) ==
    protect_pool(
        IF Cardinality(objects) > 0
        THEN IF ~HasGetItem
             THEN Raise("TypeError")
             ELSE LET it == EventPool_iter(order)
                      obj == it[Len(it)]
                      r == remove(obj)
                  IN  IF r.err # "ok" THEN r ELSE Ok(r.objs, obj)
        ELSE Raise("IndexError"))

-----------------------------------------------------------------------------
(* The registry: Event.handler and EventPool.create *)

\* The class-level name property (MetaNamedObject.name) of the Event
\* subclasses; a function and a string have no attribute name.
hasattr_name(f) == f \in {"PingA", "PingB"}
class_name(f) == "Ping"
is_callable(f) == f \in {"PingA", "PingB", "mkQuiet", JunkFactory}
qualname(f) == f
is_str(f) == f = "'Ping'"

\* Mutant: a name that is already registered keeps its entry (setdefault).
handler_keeps_first(f) ==
    LET name == IF hasattr_name(f) THEN class_name(f)
                ELSE IF is_callable(f) THEN qualname(f) ELSE "Ping"
    IN  IF ~hasattr_name(f) /\ ~is_callable(f) /\ ~is_str(f)
        THEN [handlers |-> handlers, err |-> "TypeError"]
        ELSE IF handlers[name] # NoHandler
             THEN [handlers |-> handlers, err |-> "ok"]
             ELSE [handlers |-> [handlers EXCEPT ![name] = f], err |-> "ok"]

\* Event.handler: the table afterwards and how the call ended.
handler(f) ==
    IF hasattr_name(f)
    THEN [handlers |-> [handlers EXCEPT ![class_name(f)] = f], err |-> "ok"]
    ELSE IF is_callable(f)
         THEN [handlers |-> [handlers EXCEPT ![qualname(f)] = f], err |-> "ok"]
         ELSE IF is_str(f)
              THEN [handlers |-> [handlers EXCEPT !["Ping"] = f], err |-> "ok"]
              ELSE [handlers |-> handlers, err |-> "TypeError"]

\* The class of the event a registered callable constructs; NoClass when
\* what it returns is not an event.
ClassMade(h) ==
    CASE h = "mkQuiet" -> "Quiet"
      [] h = JunkFactory -> NoClass
      [] OTHER -> h

\* The class-level _name of each Event subclass.
NameOfClass(c) == IF c \in {"PingA", "PingB"} THEN "Ping" ELSE "Quiet"

\* str.isalnum on the names in use: false for the empty string.
isalnum(n) == n # ""

\* Mutant: create reads the protected flag before it constructs the event.
call_and_add_guarded_first(h, e) ==
    IF protected
    THEN [err |-> FrozenElements, made |-> NoClass, objs |-> objects, ret |-> NoObj]
    ELSE [err |-> "ok", made |-> ClassMade(h), objs |-> objects \cup {e}, ret |-> e]

\* Mutant: create returns the event it constructed without adding it.
call_and_add_without_add(h, e) ==
    IF ~is_callable(h)
    THEN [err |-> "TypeError", made |-> NoClass, objs |-> objects, ret |-> NoObj]
    ELSE [err |-> "ok", made |-> ClassMade(h), objs |-> objects, ret |-> e]

\* The last two statements of EventPool.create, h being the table's entry:
\* event = h(*args); self.add(event); return event.  The result gives err,
\* the class of the event constructed (NoClass when none is), the pool's
\* elements afterwards and the event returned; e is the identity the new
\* event gets.
call_and_add(h, e) ==
    IF ~is_callable(h)
    THEN [err |-> "TypeError", made |-> NoClass, objs |-> objects, ret |-> NoObj]
    ELSE LET c == ClassMade(h)
         IN  IF c = NoClass
             THEN \* self.add(event) with an object that is not an event
                  [err |-> add(Junk).err, made |-> NoClass, objs |-> add(Junk).objs,
                   ret |-> NoObj]
             ELSE IF ~isalnum(NameOfClass(c))
                  THEN [err |-> "TypeError", made |-> NoClass, objs |-> objects, ret |-> NoObj]
                  ELSE IF protected
                       THEN [err |-> FrozenElements, made |-> c, objs |-> objects, ret |-> NoObj]
                       ELSE [err |-> "ok", made |-> c, objs |-> objects \cup {e}, ret |-> e]

\* Mutant: an unknown name falls back on a default constructor
\* (_handlers.get(name, mkQuiet)).
create_with_default(name, e) ==
    call_and_add(IF handlers[name] = NoHandler THEN "mkQuiet" ELSE handlers[name], e)

\* EventPool.create(name, args): Event._handlers[name] raises KeyError for a
\* key that is absent.
create(name, e) ==
    IF handlers[name] = NoHandler
    THEN [err |-> "KeyError", made |-> NoClass, objs |-> objects, ret |-> NoObj]
    ELSE call_and_add(handlers[name], e)

-----------------------------------------------------------------------------
(* The gate: MetaConditional.status_checker around Event.execute *)

\* Mutant: the permitted flag is kept on the class, shared by its instances.
condition_shared(e) == \A x \in Created : permitted[x]

\* ConditionalObject._condition of the event: the function given to
\* ConditionalObject.__init__, lambda: self.permitted.
condition(e) == permitted[e]

\* What execute returns in each Event subclass; "None" is Python's None.
Payload(c) ==
    CASE c = "PingA" -> "pong"
      [] c = "PingB" -> "PONG"
      [] OTHER -> "None"

\* Mutant: the wrapper calls the payload without asking the condition.
status_checker_ungated(e) == [ran |-> TRUE, val |-> Payload(cls[e])]

\* func_wrapper: whether the payload ran, and the value returned.
status_checker(e) ==
    IF condition(e)
    THEN [ran |-> TRUE, val |-> Payload(cls[e])]
    ELSE [ran |-> FALSE, val |-> "None"]

-----------------------------------------------------------------------------
(* The gate in general: a class Sub2(Sub), Sub a subclass of Conditional   *)
(* (src/conditional.py) or of ConditionalObject (src/core.py)              *)

GateImpls == {"Conditional", "ConditionalObject"}
NoImpl == "None"

\* Functions bound as the condition: without parameters, as the default of
\* Conditional (lambda: True) and the condition of Event are, with one
\* parameter, and with any number; flag is a variable the function reads.
Preds == {"lambda: True", "lambda: False", "lambda: flag", "lambda self: flag",
          "lambda *a: flag"}

\* What is assigned to the condition: the functions, and the integer 3.
CondInputs == Preds \cup {"3"}

TypeOfCond(f) == IF f \in Preds THEN "function" ELSE "int"

\* Whether f can be called with nargs positional arguments.
Accepts(f, nargs) ==
    CASE f \in {"lambda: True", "lambda: False", "lambda: flag"} -> nargs = 0
      [] f = "lambda self: flag" -> nargs = 1
      [] f = "lambda *a: flag" -> TRUE
      [] OTHER -> FALSE          \* an integer is not callable

\* What f returns.
PredValue(f) ==
    CASE f = "lambda: True" -> TRUE
      [] f = "lambda: False" -> FALSE
      [] OTHER -> gated.flag

\* bool(f(*args)) with nargs arguments: "True", "False" or the exception.
call_predicate(f, nargs) ==
    IF ~Accepts(f, nargs)
    THEN "TypeError"
    ELSE IF PredValue(f) THEN "True" ELSE "False"

\* The status property: Conditional calls the function without arguments,
\* ConditionalObject passes self.
status ==
    IF gated.impl = "Conditional"
    THEN call_predicate(gated.func, 0)
    ELSE call_predicate(gated.func, 1)

\* What func_wrapper tests: self.status in src/conditional.py, and
\* self.__condition() in src/meta.py, where the name reaches the function
\* through the property _condition and calls it without arguments.
gate_condition ==
    IF gated.impl = "Conditional"
    THEN status
    ELSE call_predicate(gated.func, 0)

\* The attributes of the two classes, by the key they have in the class
\* body: Sub defines act, kept, _semi, __priv (mangled to _Sub__priv),
\* __str__, a staticmethod st, a classmethod cm and a property prop; Sub2
\* overrides act and defines extra.
Attrs == {"act", "kept", "extra", "_semi", "_Sub__priv", "__str__", "st", "cm", "prop"}

KindOf(k) ==
    CASE k = "st" -> "staticmethod"
      [] k = "cm" -> "classmethod"
      [] k = "prop" -> "property"
      [] OTHER -> "function"

startswith_dunder(k) == k = "__str__"

\* The class whose body the attribute found on an instance of Sub2 is from.
DefinedIn(k) == IF k \in {"act", "extra"} THEN "Sub2" ELSE "Sub"

\* Mutant: only the class first created with the metaclass has its
\* functions wrapped; what a later subclass defines is left as written.
is_wrapped_in_first_class(k) ==
    ~startswith_dunder(k) /\ KindOf(k) = "function" /\ DefinedIn(k) = "Sub"

\* The test of __new__ on each item of attrs, applied to the body of every
\* class created with the metaclass: the attribute is replaced by
\* status_checker(v).
is_wrapped(k) ==
    ~startswith_dunder(k) /\ KindOf(k) = "function"

\* Getting the attribute k from the instance and calling it (for the
\* property: getting it): whether the body ran, and how the call ended.
func_wrapper(k) ==
    IF ~is_wrapped(k)
    THEN [err |-> "ok", ran |-> TRUE, val |-> k]
    ELSE CASE gate_condition = "True" -> [err |-> "ok", ran |-> TRUE, val |-> k]
           [] gate_condition = "False" -> [err |-> "ok", ran |-> FALSE, val |-> "None"]
           [] OTHER -> [err |-> gate_condition, ran |-> FALSE, val |-> "None"]

-----------------------------------------------------------------------------
(* State machine *)

\* The record of a call: the method, its object and string arguments, "ok"
\* or the exception, the object and the value returned, whether a payload
\* ran, the sequence yielded (for update: the pools passed), the elements of
\* a returned pool, the pool's elements before the call, and, for a call on
\* an event, that event's permitted flag before the call.
Call(op, obj, name, err, ret, val, ran, seq, pool) ==
    [op |-> op, obj |-> obj, name |-> name, err |-> err, ret |-> ret,
     val |-> val, ran |-> ran, seq |-> seq, pool |-> pool, before |-> objects,
     was |-> IF obj \in Created THEN permitted[obj] ELSE FALSE]

PoolCall(op, obj, name, out) ==
    Call(op, obj, name, out.err, out.ret, "None", FALSE, <<>>, out.pool)

Init ==
    /\ base \in Bases
    /\ objects = {}
    /\ protected = FALSE
    /\ readonly = FALSE
    /\ handlers = [n \in Keys |-> NoHandler]
    /\ cls = [e \in Events |-> NoClass]
    /\ timestamp = [e \in Events |-> 0]
    /\ permitted = [e \in Events |-> FALSE]
    /\ clock = 0
    /\ regLog = <<>>
    /\ other_objects = {}
    /\ gated = [impl |-> NoImpl, func |-> "lambda: True", flag |-> TRUE]
    /\ named = [exists |-> FALSE, name |-> <<>>, op |-> "none",
                arg |-> [type |-> "str", chars |-> <<>>], err |-> "ok",
                ret |-> FALSE]
    /\ threads = [locking |-> FALSE, lock |-> "free",
                  pc |-> [t \in Threads |-> "idle"],
                  arg |-> [t \in Threads |-> NoObj],
                  err |-> [t \in Threads |-> "ok"], ins |-> {}]
    /\ singleton = [own |-> [c \in SingletonClasses |-> NoInstance],
                    runs |-> [c \in SingletonClasses |-> 0],
                    got |-> [c \in SingletonClasses |-> {}]]
    /\ rotary = [made |-> FALSE, num |-> 0, wrapping |-> FALSE, state |-> 0,
                 op |-> "none", arg |-> IntState(0), err |-> "ok"]
    /\ last = Call("init", NoObj, "", "ok", NoObj, "None", FALSE, <<>>, {})

\* Event.__init__ for the new event e of class c; adv says whether
\* time.time() has advanced since its latest reading.
Event_init(e, c, adv) ==
    /\ cls' = [cls EXCEPT ![e] = c]
    /\ clock' = IF adv THEN clock + 1 ELSE clock
    /\ timestamp' = [timestamp EXCEPT ![e] = clock']
    /\ permitted' = [permitted EXCEPT ![e] = TRUE]

\* Client code constructs an event: c().  Every class of EventClasses has
\* an alphanumeric name, so NamedObject.__init__ accepts it.
NewEvent(c, adv) ==
    /\ NextId <= MaxEvents
    /\ Event_init(NextId, c, adv)
    /\ last' = Call("new", NextId, c, "ok", NextId, "None", FALSE, <<>>, {})
    /\ UNCHANGED <<rest, regLog, other_objects, base, objects, protected, readonly, handlers>>

\* Mutant: writing the protected flag writes the readonly flag too.
SetProtected_both(v) ==
    /\ LET r == BoolSetter("pool", v)
       IN  /\ protected' = IF r = "call" THEN (v = "True") ELSE protected
           /\ readonly' = IF r = "call" THEN (v = "True") ELSE readonly
           /\ last' = Call("protected", NoObj, v, IF r = "call" THEN "ok" ELSE r,
                           NoObj, "None", FALSE, <<>>, {})
    /\ UNCHANGED <<rest, regLog, other_objects, base, objects, handlers, cls, timestamp, permitted, clock>>

SetProtected(v) ==
    /\ LET r == BoolSetter("pool", v)
       IN  /\ protected' = IF r = "call" THEN (v = "True") ELSE protected
           /\ last' = Call("protected", NoObj, v, IF r = "call" THEN "ok" ELSE r,
                           NoObj, "None", FALSE, <<>>, {})
    /\ UNCHANGED <<rest, regLog, other_objects, base, objects, readonly, handlers, cls, timestamp, permitted, clock>>

SetReadonly(v) ==
    /\ LET r == BoolSetter("pool", v)
       IN  /\ readonly' = IF r = "call" THEN (v = "True") ELSE readonly
           /\ last' = Call("readonly", NoObj, v, IF r = "call" THEN "ok" ELSE r,
                           NoObj, "None", FALSE, <<>>, {})
    /\ UNCHANGED <<rest, regLog, other_objects, base, objects, protected, handlers, cls, timestamp, permitted, clock>>

PoolStep(op, obj, name, out) ==
    /\ objects' = out.objs
    /\ last' = PoolCall(op, obj, name, out)
    /\ UNCHANGED <<rest, regLog, other_objects, base, protected, readonly, handlers, cls, timestamp, permitted, clock>>

\* pool = EventPool(name, *events): when the constructor returns, the pool
\* is the new one, its two flags False; when it raises, the pool stays the
\* one it was.
Construct(events) ==
    LET out == EventPool_init(events)
    IN  /\ objects' = IF out.err = "ok" THEN out.pool ELSE objects
        /\ protected' = IF out.err = "ok" THEN FALSE ELSE protected
        /\ readonly' = IF out.err = "ok" THEN FALSE ELSE readonly
        /\ last' = PoolCall("init", NoObj, "", out)
        /\ UNCHANGED <<rest, regLog, other_objects, base, handlers, cls, timestamp, permitted,
                       clock>>

Add(obj) == PoolStep("add", obj, "", add(obj))

Remove(obj) == PoolStep("remove", obj, "", remove(obj))

\* update(*pools); the pools passed are kept in the record of the call.
Update(pools) ==
    /\ objects' = update(pools).objs
    /\ last' = [PoolCall("update", NoObj, "", update(pools)) EXCEPT !.seq = pools]
    /\ UNCHANGED <<rest, regLog, other_objects, base, protected, readonly, handlers, cls,
                   timestamp, permitted, clock>>

\* other.add(obj) on the second EventPool, whose flags are never set.
OtherAdd(obj) ==
    /\ isinstance_Event(obj)
    /\ other_objects' = other_objects \cup {obj}
    /\ last' = Call("other.add", obj, "", "ok", NoObj, "None", FALSE, <<>>, {})
    /\ UNCHANGED <<rest, regLog, base, objects, protected, readonly, handlers, cls, timestamp,
                   permitted, clock>>

Disjoint(other) == PoolStep("disjoint", NoObj, "", disjoint(other))

Clear(fn) == PoolStep("clear", NoObj, fn, clear(fn))

Filter(fn) == PoolStep("filter", NoObj, fn, filter(fn))

Pop(order) == PoolStep("pop", NoObj, "", pop(order))

\* for e in pool: the events in the order they are yielded.
Iterate(order) ==
    /\ last' = Call("iter", NoObj, "", "ok", NoObj, "None", FALSE,
                    EventPool_iter(order), {})
    /\ UNCHANGED <<rest, regLog, other_objects, base, objects, protected, readonly, handlers, cls, timestamp,
                   permitted, clock>>

HandlerStep(f) ==
    /\ handlers' = handler(f).handlers
    /\ last' = Call("handler", NoObj, f, handler(f).err, NoObj, "None", FALSE, <<>>, {})
    /\ UNCHANGED <<rest, other_objects, base, objects, protected, readonly, cls, timestamp,
                   permitted, clock>>

\* Event.handler(f).
Handler(f) ==
    /\ HandlerStep(f)
    /\ UNCHANGED regLog

\* Event.handler(f), the registration history kept.
Register(f) ==
    /\ Len(regLog) < MaxRegs
    /\ HandlerStep(f)
    /\ regLog' = IF handler(f).err = "ok" THEN Append(regLog, f) ELSE regLog

Create(name, adv) ==
    LET e == NextId
        out == create(name, e)
    IN  /\ IF out.made # NoClass
           THEN /\ e <= MaxEvents
                /\ Event_init(e, out.made, adv)
           ELSE UNCHANGED <<cls, timestamp, permitted, clock>>
        /\ objects' = out.objs
        /\ last' = Call("create", NoObj, name, out.err, out.ret, "None", FALSE, <<>>, {})
        /\ UNCHANGED <<rest, regLog, other_objects, base, protected, readonly, handlers>>

\* Mutant: the setter is wrapped by the gate like a public method, and is
\* skipped while the event is blocked.
SetPermitted_gated(e, v) ==
    /\ e \in Created
    /\ LET r == IF condition(e) THEN BoolSetter("event", v) ELSE "skipped"
       IN  /\ permitted' = IF r = "call" THEN [permitted EXCEPT ![e] = (v = "True")]
                           ELSE permitted
           /\ last' = Call("permitted", e, v, IF r \in {"call", "skipped"} THEN "ok" ELSE r,
                           NoObj, "None", FALSE, <<>>, {})
    /\ UNCHANGED <<rest, regLog, other_objects, base, objects, protected, readonly, handlers, cls,
                   timestamp, clock>>

\* event.permitted = v.
SetPermitted(e, v) ==
    /\ e \in Created
    /\ LET r == BoolSetter("event", v)
       IN  /\ permitted' = IF r = "call" THEN [permitted EXCEPT ![e] = (v = "True")]
                           ELSE permitted
           /\ last' = Call("permitted", e, v, IF r = "call" THEN "ok" ELSE r,
                           NoObj, "None", FALSE, <<>>, {})
    /\ UNCHANGED <<rest, regLog, other_objects, base, objects, protected, readonly, handlers, cls, timestamp, clock>>

Execute(e) ==
    /\ e \in Created
    /\ last' = Call("execute", e, "", "ok", NoObj, status_checker(e).val,
                    status_checker(e).ran, <<>>, {})
    /\ UNCHANGED <<rest, regLog, other_objects, base, objects, protected, readonly, handlers, cls, timestamp,
                   permitted, clock>>

\* g = Sub2(f).  Conditional.__init__ assigns through the condition setter,
\* which checks the type; ConditionalObject.__init__ stores what it is given.
NewGated(impl, f) ==
    /\ gated.impl = NoImpl
    /\ LET r == IF impl = "Conditional"
                THEN strict_arg("func", "function", <<"self", "func">>,
                                <<"Sub2", TypeOfCond(f)>>)
                ELSE "call"
       IN  /\ gated' = IF r = "call" THEN [gated EXCEPT !.impl = impl, !.func = f]
                       ELSE gated
           /\ last' = Call("newgated", NoObj, f, IF r = "call" THEN "ok" ELSE r, NoObj,
                           "None", FALSE, <<>>, {})
    /\ UNCHANGED but_gated

\* g.condition = f (Conditional) or g._condition = f (ConditionalObject).
Rebind(f) ==
    /\ gated.impl # NoImpl
    /\ LET r == strict_arg("func", "function", <<"self", "func">>,
                           <<"Sub2", TypeOfCond(f)>>)
       IN  /\ gated' = IF r = "call" THEN [gated EXCEPT !.func = f] ELSE gated
           /\ last' = Call("rebind", NoObj, f, IF r = "call" THEN "ok" ELSE r, NoObj,
                           "None", FALSE, <<>>, {})
    /\ UNCHANGED but_gated

\* Client code assigns the variable that the functions read.
SetFlag(b) ==
    /\ gated.impl # NoImpl
    /\ gated' = [gated EXCEPT !.flag = b]
    /\ last' = Call("flag", NoObj, "", "ok", NoObj, "None", FALSE, <<>>, {})
    /\ UNCHANGED but_gated

\* g.k() for a method, g.k for the property.
CallAttr(k) ==
    /\ gated.impl # NoImpl
    /\ last' = Call("call", NoObj, k, func_wrapper(k).err, NoObj, func_wrapper(k).val,
                    func_wrapper(k).ran, <<>>, {})
    /\ UNCHANGED <<but_gated, gated>>

\* g.status
ReadStatus ==
    /\ gated.impl # NoImpl
    /\ last' = Call("status", NoObj, "", IF status \in {"True", "False"} THEN "ok" ELSE status,
                    NoObj, IF status \in {"True", "False"} THEN status ELSE "None",
                    FALSE, <<>>, {})
    /\ UNCHANGED <<but_gated, gated>>

-----------------------------------------------------------------------------
(* Specifications *)

\* The guarded pool: events constructed by client code, the two flags and
\* the pool's methods.
NextPool ==
    \/ NewEvent("PingA", TRUE)
    \/ \E v \in FlagInputs : SetProtected(v)
    \/ \E v \in FlagInputs : SetReadonly(v)
    \/ \E x \in Created \cup {Junk} : Add(x)
    \/ \E x \in Created \cup {Junk} : Remove(x)
    \/ \E ps \in PoolArgs : Update(ps)
    \/ \E o \in SUBSET Created : Disjoint(o)
    \/ \E f \in FnInputs : Clear(f)
    \/ \E f \in FnInputs : Filter(f)
    \/ \E o \in Orders(objects) : Pop(o)

SpecPool == Init /\ [][NextPool]_vars

\* Ordering: events constructed at equal or increasing instants, added and
\* removed in any order, iterated and popped.
NextOrder ==
    \/ \E adv \in BOOLEAN : NewEvent("PingA", adv)
    \/ \E x \in Created : Add(x)
    \/ \E x \in Created : Remove(x)
    \/ \E o \in Orders(objects) : Iterate(o)
    \/ \E o \in Orders(objects) : Pop(o)

SpecOrder == Init /\ [][NextOrder]_vars

\* The registry and the gate: registration, creation by name, the permitted
\* flag and execution.
NextGate ==
    \/ \E f \in RegInputs : Handler(f)
    \/ \E n \in Names : Create(n, TRUE)
    \/ \E e \in Events, v \in FlagInputs : SetPermitted(e, v)
    \/ \E e \in Events : Execute(e)

SpecGate == Init /\ [][NextGate]_vars

\* The registry alone, with the history of the registrations.
NextRegistry ==
    \/ \E f \in RegInputs : Register(f)
    \/ \E n \in Names : Create(n, TRUE)

SpecRegistry == Init /\ [][NextRegistry]_vars

\* Two pools: events added to either, and update and disjoint of the first
\* with the second.
NextTwoPools ==
    \/ NewEvent("PingA", TRUE)
    \/ \E v \in FlagInputs : SetReadonly(v)
    \/ \E x \in Created : Add(x)
    \/ \E x \in Created : OtherAdd(x)
    \/ \E ps \in PoolArgs : Update(ps)
    \/ Disjoint(other_objects)

SpecTwoPools == Init /\ [][NextTwoPools]_vars

\* Every way elements get into and out of a pool: construction with
\* pre-seeded objects, creation by name (of an event, and through a factory
\* that returns another object), and the pool's methods, under both flags.
NextMembers ==
    \/ NewEvent("PingA", TRUE)
    \/ \E v \in {"True", "False"} : SetProtected(v)
    \/ \E v \in {"True", "False"} : SetReadonly(v)
    \/ \E s \in SUBSET (Created \cup {Junk}) : Construct(s)
    \/ \E f \in {"PingA", JunkFactory} : Handler(f)
    \/ \E n \in {"Ping", JunkFactory} : Create(n, TRUE)
    \/ \E x \in Created \cup {Junk} : Add(x)
    \/ \E x \in Created \cup {Junk} : Remove(x)
    \/ \E ps \in PoolArgs : Update(ps)
    \/ \E o \in SUBSET Created : Disjoint(o)
    \/ \E f \in {"always", "None"} : Clear(f)
    \/ \E o \in Orders(objects) : Pop(o)

SpecMembers == Init /\ [][NextMembers]_vars

\* The permitted flag alone: events of two classes constructed by client
\* code, assignments to permitted, and execution.
NextPermitted ==
    \/ \E c \in {"PingA", "Quiet"} : NewEvent(c, TRUE)
    \/ \E e \in Events, v \in FlagInputs : SetPermitted(e, v)
    \/ \E e \in Events : Execute(e)

SpecPermitted == Init /\ [][NextPermitted]_vars

\* A gated object: construction, re-binding of the condition, the variable
\* the conditions read, attribute calls and the status property.
NextGated ==
    \/ \E impl \in GateImpls, f \in CondInputs : NewGated(impl, f)
    \/ \E f \in CondInputs : Rebind(f)
    \/ \E b \in BOOLEAN : SetFlag(b)
    \/ \E k \in Attrs : CallAttr(k)
    \/ ReadStatus

SpecGated == Init /\ [][NextGated]_vars

\* Creation by name on a pool whose protected flag is set and cleared.
NextCreate ==
    \/ \E f \in RegInputs : Handler(f)
    \/ \E n \in Names : Create(n, TRUE)
    \/ \E v \in FlagInputs : SetProtected(v)
    \/ \E x \in Created : Remove(x)

SpecCreate == Init /\ [][NextCreate]_vars

-----------------------------------------------------------------------------
(* Properties of the guarded pool, checked under SpecPool *)

\* C1: while protected (elements frozen) is true, every add fails with the
\* frozen-elements error and leaves the pool's elements unchanged, and a
\* remove of an element that is present succeeds and removes exactly it.
C1_FrozenElementsBlocksAddNotRemove ==
    [][protected =>
        /\ (last'.op = "add" =>
               /\ last'.err = FrozenElements
               /\ objects' = objects)
        /\ (last'.op = "remove" /\ last'.obj \in objects =>
               /\ last'.err = "ok"
               /\ objects' = objects \ {last'.obj})]_vars

\* C1 witness: an add of an event was refused by a protected pool that holds
\* other events.
C1_Witness ==
    /\ protected
    /\ last.op = "add"
    /\ last.obj \in Created
    /\ last.err = FrozenElements
    /\ objects # {}

\* What add and remove do in a pool whose readonly flag is false.
C2_AddWhenNotReadonly(obj) ==
    IF protected
    THEN [err |-> FrozenElements, objs |-> objects]
    ELSE IF obj \notin Created
         THEN [err |-> WrongType, objs |-> objects]
         ELSE [err |-> "ok", objs |-> objects \cup {obj}]

C2_RemoveWhenNotReadonly(obj) ==
    IF obj \notin Created
    THEN [err |-> WrongType, objs |-> objects]
    ELSE IF obj \notin objects
         THEN [err |-> "KeyError", objs |-> objects]
         ELSE [err |-> "ok", objs |-> objects \ {obj}]

\* C2: while readonly (pool frozen) is true, update, disjoint, clear and pop
\* fail with the frozen-pool error and leave the pool's elements unchanged;
\* add and remove, whatever readonly is, do what they do when it is false.
C2_FrozenPoolBlocksStructuralOps ==
    [][/\ (readonly /\ last'.op \in {"update", "disjoint", "clear", "pop"} =>
               /\ last'.err = FrozenPool
               /\ objects' = objects)
       /\ (last'.op = "add" =>
               /\ last'.err = C2_AddWhenNotReadonly(last'.obj).err
               /\ objects' = C2_AddWhenNotReadonly(last'.obj).objs)
       /\ (last'.op = "remove" =>
               /\ last'.err = C2_RemoveWhenNotReadonly(last'.obj).err
               /\ objects' = C2_RemoveWhenNotReadonly(last'.obj).objs)]_vars

\* C2 witness: a pop was refused by a readonly pool that holds events.
C2_Witness ==
    /\ readonly
    /\ last.op = "pop"
    /\ last.err = FrozenPool
    /\ objects # {}

\* C3 as claimed: filter called with a function completes, whatever the two
\* flags are, and leaves the pool's elements and flags as they were.
C3_FilterCompletesLeavingPoolUnchanged ==
    [][last'.op = "filter" /\ TypeOfFn(last'.name) = "function" =>
        /\ last'.err = "ok"
        /\ objects' = objects
        /\ protected' = protected
        /\ readonly' = readonly]_vars

\* C9: an add of an element already in a pool that is not protected
\* succeeds and leaves the pool's elements, and so its size, unchanged.
C9_AddIdempotent ==
    [][last'.op = "add" /\ ~protected /\ last'.obj \in objects =>
        /\ last'.err = "ok"
        /\ objects' = objects
        /\ Cardinality(objects') = Cardinality(objects)]_vars

\* C9 witness: an element of a pool of two or more was added again.
C9_Witness ==
    /\ last.op = "add"
    /\ last.err = "ok"
    /\ last.obj \in last.before
    /\ objects = last.before
    /\ Cardinality(objects) >= 2

-----------------------------------------------------------------------------
(* Properties of the ordering, checked under SpecOrder *)

\* C4: an iteration of the pool yields every event of the pool exactly once,
\* never an older event before a newer one, and in strictly descending
\* timestamp order when the events were created at distinct instants.
C4_IterationNewestFirst ==
    last.op = "iter" =>
        LET seq == last.seq
            n == Len(seq)
        IN  /\ n = Cardinality(objects)
            /\ Range(seq) = objects
            /\ \A i, j \in 1..n : i < j => timestamp[seq[i]] >= timestamp[seq[j]]
            /\ (\A a, b \in objects : a # b => timestamp[a] # timestamp[b]) =>
                   \A i, j \in 1..n : i < j => timestamp[seq[i]] > timestamp[seq[j]]

\* C4 witness: three events created at instants t1 < t2 < t3 were iterated
\* and came out in the order t3, t2, t1.
C4_Witness ==
    /\ last.op = "iter"
    /\ Len(last.seq) = 3
    /\ timestamp[last.seq[1]] > timestamp[last.seq[2]]
    /\ timestamp[last.seq[2]] > timestamp[last.seq[3]]

\* C5 as claimed: pop on a pool that holds events and is not readonly
\* returns the last element of the iteration order, which no event of the
\* pool is older than, and removes exactly that element.
C5_PopReturnsOldest ==
    [][last'.op = "pop" /\ objects # {} /\ ~readonly =>
        /\ last'.err = "ok"
        /\ last'.ret \in objects
        /\ \E o \in Orders(objects) :
               last'.ret = EventPool_iter(o)[Cardinality(objects)]
        /\ \A e \in objects : timestamp[last'.ret] <= timestamp[e]
        /\ objects' = objects \ {last'.ret}]_vars

-----------------------------------------------------------------------------
(* Properties of the gate, checked under SpecGate *)

\* What execute returns when the payload runs and returns nothing.
ReturnedNothing == Payload("Quiet")

\* C6 as claimed: execute on an event that is not permitted does not run the
\* payload, changes nothing, and returns a value that differs from what a
\* payload that ran and returned nothing gives.
C6_SkippedMarkerDistinct ==
    [][last'.op = "execute" /\ ~permitted[last'.obj] =>
        /\ ~last'.ran
        /\ UNCHANGED <<objects, protected, readonly, handlers, cls, timestamp, permitted>>
        /\ last'.val # ReturnedNothing]_vars

\* C6 amended: execute on an event that is not permitted does not run the
\* payload, changes nothing, and returns None, the value execute also
\* returns when the payload runs and returns nothing.
C6_SkippedReturnsNone ==
    [][last'.op = "execute" /\ ~permitted[last'.obj] =>
        /\ ~last'.ran
        /\ UNCHANGED <<objects, protected, readonly, handlers, cls, timestamp, permitted>>
        /\ last'.val = "None"
        /\ last'.val = ReturnedNothing]_vars

\* C6 witness: execute was called on a blocked event whose payload returns
\* "pong", and returned None.
C6_Witness ==
    /\ last.op = "execute"
    /\ ~permitted[last.obj]
    /\ Payload(cls[last.obj]) = "pong"
    /\ last.val = "None"
    /\ ~last.ran

\* C7: execute on an event runs the payload and returns its result exactly
\* when that event's own permitted flag is true, and is skipped (None, no
\* payload) exactly when it is false, whatever the flags of the other events.
C7_GatePerInstance ==
    last.op = "execute" =>
        /\ (permitted[last.obj] =>
               /\ last.ran
               /\ last.val = Payload(cls[last.obj]))
        /\ (~permitted[last.obj] =>
               /\ ~last.ran
               /\ last.val = "None")

\* C7 witness: the pool holds two events of one class, one of them blocked,
\* and execute on the other ran the payload and returned "pong".
C7_Witness ==
    /\ last.op = "execute"
    /\ last.obj \in objects
    /\ permitted[last.obj]
    /\ last.ran
    /\ last.val = "pong"
    /\ \E x \in objects \ {last.obj} : cls[x] = cls[last.obj] /\ ~permitted[x]

\* C8: create with a name the handler table does not hold fails with
\* KeyError, constructs no event, returns nothing, and leaves the pool and
\* the table unchanged.
C8_CreateUnknownName ==
    [][last'.op = "create" /\ handlers[last'.name] = NoHandler =>
        /\ last'.err = "KeyError"
        /\ last'.ret = NoObj
        /\ cls' = cls
        /\ objects' = objects
        /\ handlers' = handlers]_vars

\* C8 witness: create("NoSuchEvent") failed on a pool that holds an event,
\* with other names registered.
C8_Witness ==
    /\ last.op = "create"
    /\ last.name = "NoSuchEvent"
    /\ last.err = "KeyError"
    /\ objects # {}
    /\ handlers["Ping"] # NoHandler

-----------------------------------------------------------------------------
(* Properties of the registry, checked under SpecRegistry *)

\* The name a registered value is filed under.
C10_NameOf(f) ==
    CASE f \in {"PingA", "PingB", "'Ping'"} -> "Ping"
      [] OTHER -> "mkQuiet"

\* The value of the latest registration under name n in the history log,
\* NoHandler when there is none.
RECURSIVE C10_LatestFor(_, _)
C10_LatestFor(log, n) ==
    IF log = <<>>
    THEN NoHandler
    ELSE IF C10_NameOf(log[Len(log)]) = n
         THEN log[Len(log)]
         ELSE C10_LatestFor(SubSeq(log, 1, Len(log) - 1), n)

\* C10: the table holds, for every name, the value of the latest
\* registration under that name; a create that succeeds returns an event
\* of the class that value constructs, and a create whose latest
\* registration is not callable fails instead of using an earlier one.
C10_LastWriterWins ==
    /\ \A n \in Names : handlers[n] = C10_LatestFor(regLog, n)
    /\ (last.op = "create" /\ last.err = "ok" =>
           cls[last.ret] = ClassMade(C10_LatestFor(regLog, last.name)))
    /\ (last.op = "create" /\ C10_LatestFor(regLog, last.name) = "'Ping'" =>
           last.err = "TypeError")

\* C10 witness: PingA, then mkQuiet, then PingB were registered, and
\* create("Ping") returned a PingB event while mkQuiet kept its entry.
C10_Witness ==
    /\ regLog = <<"PingA", "mkQuiet", "PingB">>
    /\ handlers["mkQuiet"] = "mkQuiet"
    /\ last.op = "create"
    /\ last.name = "Ping"
    /\ last.err = "ok"
    /\ cls[last.ret] = "PingB"

-----------------------------------------------------------------------------
(* Properties of creation by name, checked under SpecCreate *)

\* C11: create with a name whose table entry is a constructor, on a pool
\* that is not protected, succeeds; it constructs one new event of the class
\* the entry constructs and returns it, the event is a member of the pool
\* afterwards, and the pool holds exactly its previous elements plus it.
C11_CreateRegistered ==
    [][last'.op = "create" /\ is_callable(handlers[last'.name]) /\ ~protected =>
        /\ last'.err = "ok"
        /\ last'.ret \in Created' \ Created
        /\ cls'[last'.ret] = ClassMade(handlers[last'.name])
        /\ last'.ret \in objects'
        /\ objects' = objects \cup {last'.ret}]_vars

\* C11 witness: create("Ping") on an unprotected pool that held an event
\* returned a new event, and the pool holds both.
C11_Witness ==
    /\ last.op = "create"
    /\ last.name = "Ping"
    /\ last.err = "ok"
    /\ ~protected
    /\ last.before # {}
    /\ last.ret \notin last.before
    /\ objects = last.before \cup {last.ret}

-----------------------------------------------------------------------------
(* Further properties of the guarded pool, checked under SpecPool *)

\* C12 as claimed: filter called with a function returns a new pool whose
\* elements are exactly the elements of the source pool for which the
\* function holds, and the source pool keeps its elements.
C12_FilterReturnsMatching ==
    [][last'.op = "filter" /\ TypeOfFn(last'.name) = "function" =>
        /\ last'.err = "ok"
        /\ last'.pool = {e \in objects : Holds(last'.name, e)}
        /\ objects' = objects]_vars

\* C14 as claimed: on a pool that is not readonly, whatever protected is,
\* clear called with a function succeeds and removes exactly the elements
\* for which the function holds, and clear called without one succeeds and
\* empties the pool.
C14_ClearRemovesMatching ==
    [][last'.op = "clear" /\ ~readonly /\ TypeOfFn(last'.name) \in {"function", "NoneType"} =>
        /\ last'.err = "ok"
        /\ objects' = IF TypeOfFn(last'.name) = "function"
                      THEN {e \in objects : ~Holds(last'.name, e)}
                      ELSE {}]_vars

\* C16 as claimed: remove fails with TypeError when the object is not an
\* event and with KeyError when it is an event the pool does not hold, the
\* pool's elements unchanged in both cases; otherwise it succeeds and removes
\* exactly that object.
C16_RemoveErrors ==
    [][last'.op = "remove" =>
        IF ~isinstance_Event(last'.obj)
        THEN /\ last'.err = "TypeError"
             /\ objects' = objects
        ELSE IF last'.obj \notin objects
             THEN /\ last'.err = "KeyError"
                  /\ objects' = objects
             ELSE /\ last'.err = "ok"
                  /\ objects' = objects \ {last'.obj}]_vars

\* C17: pop on a pool that holds no element and is not readonly fails with
\* IndexError and returns nothing; the pool stays empty and its two flags
\* keep their values.
C17_PopEmpty ==
    [][last'.op = "pop" /\ objects = {} /\ ~readonly =>
        /\ last'.err = "IndexError"
        /\ last'.ret = NoObj
        /\ objects' = {}
        /\ protected' = protected
        /\ readonly' = readonly]_vars

\* C17 witness: pop failed with IndexError on a pool that had been emptied,
\* its protected flag set.
C17_Witness ==
    /\ last.op = "pop"
    /\ last.err = "IndexError"
    /\ objects = {}
    /\ Created # {}
    /\ protected
    /\ ~readonly

\* C18: assigning True or False to protected or readonly succeeds and
\* stores that value; assigning a value that is not a boolean fails with
\* TypeError and leaves the flag as it was; an assignment to one flag never
\* changes the other; and both flags are booleans in every reachable state.
C18_FlagSettersBoolOnly ==
    /\ [](protected \in BOOLEAN /\ readonly \in BOOLEAN)
    /\ [][/\ (last'.op = "protected" =>
                 /\ readonly' = readonly
                 /\ IF TypeOfFlag(last'.name) = "bool"
                    THEN last'.err = "ok" /\ protected' = (last'.name = "True")
                    ELSE last'.err = "TypeError" /\ protected' = protected)
          /\ (last'.op = "readonly" =>
                 /\ protected' = protected
                 /\ IF TypeOfFlag(last'.name) = "bool"
                    THEN last'.err = "ok" /\ readonly' = (last'.name = "True")
                    ELSE last'.err = "TypeError" /\ readonly' = readonly)]_vars

\* C18 witness: readonly was True, the integer 1 was assigned to it, the
\* assignment failed with TypeError and the flag is still True.
C18_Witness ==
    /\ last.op = "readonly"
    /\ last.name = "1"
    /\ last.err = "TypeError"
    /\ readonly
    /\ ~protected

-----------------------------------------------------------------------------
(* Properties of two pools, checked under SpecTwoPools *)

\* C13 as claimed: update on a pool that is not readonly fails with
\* TypeError, the pool unchanged, when one of the pools passed is of another
\* type; otherwise it succeeds and the pool holds its previous elements and
\* those of every pool passed.  The pools passed keep their elements.
C13_UpdateUnionOrTypeMismatch ==
    [][last'.op = "update" /\ ~readonly =>
        LET pools == last'.seq
        IN  /\ other_objects' = other_objects
            /\ IF \E i \in 1..Len(pools) : ~isinstance_EventPool(pools[i])
               THEN /\ last'.err = "TypeError"
                    /\ objects' = objects
               ELSE /\ last'.err = "ok"
                    /\ objects' = objects \cup
                           UNION {ObjectsOf(pools[i]) : i \in 1..Len(pools)}]_vars

\* C15: disjoint(other) on a pool that is not readonly succeeds and leaves
\* the pool holding exactly its previous elements that other does not hold;
\* no element of other is added, and other keeps its elements.
C15_DisjointRemovesShared ==
    [][last'.op = "disjoint" /\ ~readonly =>
        /\ last'.err = "ok"
        /\ objects' = objects \ other_objects
        /\ objects' \subseteq objects
        /\ other_objects' = other_objects]_vars

\* C15 witness: the pool shared an event with other, each held an event the
\* other lacked, and after disjoint the pool holds only its own.
C15_Witness ==
    /\ last.op = "disjoint"
    /\ last.err = "ok"
    /\ last.before \cap other_objects # {}
    /\ other_objects \ last.before # {}
    /\ objects # {}
    /\ objects = last.before \ other_objects

-----------------------------------------------------------------------------
(* The invariant of a pool's elements, checked under SpecMembers *)

\* C19: in every reachable state every element of the pool is an event, an
\* instance of the pool's object_type, and an iteration of the pool yields
\* no element twice.
C19_ElementsTypedAndDistinct ==
    /\ \A o \in objects : isinstance_Event(o)
    /\ Junk \notin objects
    /\ \A s \in Orders(objects) :
           \A i, j \in 1..Len(EventPool_iter(s)) :
               i # j => EventPool_iter(s)[i] # EventPool_iter(s)[j]

\* C19 witness: a factory that returns an object that is not an event was
\* registered, create through it was refused by add, and the pool still
\* holds its two events.
C19_Witness ==
    /\ last.op = "create"
    /\ last.name = JunkFactory
    /\ last.err = WrongType
    /\ Cardinality(objects) >= 2
    /\ objects = last.before

-----------------------------------------------------------------------------
(* Properties of the permitted flag, checked under SpecPermitted *)

\* C20: a newly constructed event is permitted; an event's permitted flag
\* changes only in an assignment to that event's permitted property; such an
\* assignment of True or False succeeds and stores the value whether the
\* event is permitted or blocked; so from every state each event can be set
\* to either value, and execute on a permitted event runs the payload.
C20_PermittedTwoStates ==
    /\ [](\A e \in Created : \A b \in BOOLEAN :
             ENABLED (\E v \in FlagInputs : SetPermitted(e, v) /\ permitted'[e] = b))
    /\ [][/\ \A e \in Created' \ Created : permitted'[e]
          /\ \A e \in Created :
                 permitted'[e] # permitted[e] =>
                     last'.op = "permitted" /\ last'.obj = e
          /\ (last'.op = "permitted" /\ TypeOfFlag(last'.name) = "bool" =>
                 /\ last'.err = "ok"
                 /\ permitted'[last'.obj] = (last'.name = "True"))
          /\ (last'.op = "execute" /\ permitted[last'.obj] =>
                 /\ last'.ran
                 /\ last'.val = Payload(cls[last'.obj]))]_vars

\* C20 witness: an event that was blocked was assigned True and is
\* permitted again, while another event stays blocked.
C20_Witness ==
    /\ last.op = "permitted"
    /\ last.name = "True"
    /\ last.err = "ok"
    /\ ~last.was
    /\ permitted[last.obj]
    /\ \E x \in Created \ {last.obj} : ~permitted[x]

-----------------------------------------------------------------------------
(* Properties of the gate in general, checked under SpecGated *)

\* C21 as claimed: an assignment of a function to the condition succeeds
\* and binds it; from then on, for a condition of the form the classes
\* themselves use (a function without parameters), status returns what the
\* function bound now returns, and a call of a gated method runs the body
\* exactly when that function returns true.
C21_ReboundPredicateDecides ==
    [][/\ (last'.op = "rebind" /\ TypeOfCond(last'.name) = "function" =>
              /\ last'.err = "ok"
              /\ gated'.func = last'.name)
       /\ (last'.op = "status" /\ Accepts(gated.func, 0) =>
              /\ last'.err = "ok"
              /\ last'.val = IF PredValue(gated.func) THEN "True" ELSE "False")
       /\ (last'.op = "call" /\ is_wrapped(last'.name) /\ Accepts(gated.func, 0) =>
              /\ last'.err = "ok"
              /\ last'.ran = PredValue(gated.func))]_vars

\* The methods of Sub and Sub2 that client code calls by a public name.
C22_PublicMethods == {"act", "kept", "extra", "st", "cm"}

-----------------------------------------------------------------------------
(* The constructor of the pool, checked under SpecMembers *)

\* C23 as claimed: constructing an EventPool with pre-seeded objects fails
\* with TypeError, no pool constructed, when one of the objects is not an
\* event; when all of them are events it succeeds and the new pool holds
\* exactly those events.
C23_PreseededConstructor ==
    [][\A events \in SUBSET (Created \cup {Junk}) :
        Construct(events) =>
            IF \E o \in events : ~isinstance_Event(o)
            THEN /\ last'.err = "TypeError"
                 /\ objects' = objects
            ELSE /\ last'.err = "ok"
                 /\ objects' = events]_vars

-----------------------------------------------------------------------------
(* Names: NamedObject.check_name and the constructors that call it *)

\* The characters of the names: a letter, a digit, and one character that
\* is neither.
Chars == {"a", "7", "_"}
char_isalnum(c) == c \in {"a", "7"}

\* The strings of at most MaxLen characters.
Strs == UNION {[1..n -> Chars] : n \in 0..MaxLen}

\* What is passed as a name: a string, or an int.
NameInputs == {[type |-> "str", chars |-> s] : s \in Strs}
              \cup {[type |-> "int", chars |-> <<>>]}

\* str.isalnum(): every character is alphanumeric and there is at least one.
str_isalnum(s) == Len(s) > 0 /\ \A i \in 1..Len(s) : char_isalnum(s[i])

\* NamedObject.check_name(name), decorated with strict_arg('name', str).
check_name(n) ==
    IF n.type # "str"
    THEN [err |-> "TypeError", ret |-> FALSE]
    ELSE [err |-> "ok", ret |-> str_isalnum(n.chars)]

\* NamedObject.__init__(name) and the setter of NamedObject.name: the name
\* is stored when check_name returns True, TypeError otherwise.
store_name(n) ==
    LET r == check_name(n)
    IN  IF r.err = "ok" /\ r.ret
        THEN [err |-> "ok", stored |-> TRUE]
        ELSE [err |-> "TypeError", stored |-> FALSE]

\* Event._name, the name a class of events has unless it sets its own.
Event_name == [type |-> "str", chars |-> <<>>]

\* NamedObject.check_name(n), called on the class.
CheckName(n) ==
    /\ named' = [named EXCEPT !.op = "check_name", !.arg = n,
                              !.err = check_name(n).err,
                              !.ret = check_name(n).ret]
    /\ UNCHANGED <<but_named, last>>

\* o = NamedObject(n): o stays what it was when the constructor raises.
NewNamed(n) ==
    /\ named' = [exists |-> named.exists \/ store_name(n).stored,
                 name |-> IF store_name(n).stored THEN n.chars ELSE named.name,
                 op |-> "NamedObject", arg |-> n, err |-> store_name(n).err,
                 ret |-> FALSE]
    /\ UNCHANGED <<but_named, last>>

\* o.name = n
SetName(n) ==
    /\ named.exists
    /\ named' = [named EXCEPT
                    !.name = IF store_name(n).stored THEN n.chars ELSE @,
                    !.op = "name.setter", !.arg = n,
                    !.err = store_name(n).err, !.ret = FALSE]
    /\ UNCHANGED <<but_named, last>>

\* o = Event(): ClassicObject.__init__(self, self._name) with the name of
\* the class Event itself.
NewDefaultEvent ==
    /\ named' = [exists |-> named.exists \/ store_name(Event_name).stored,
                 name |-> IF store_name(Event_name).stored
                          THEN Event_name.chars ELSE named.name,
                 op |-> "Event", arg |-> Event_name,
                 err |-> store_name(Event_name).err, ret |-> FALSE]
    /\ UNCHANGED <<but_named, last>>

NextNames ==
    \/ \E n \in NameInputs : CheckName(n)
    \/ \E n \in NameInputs : NewNamed(n)
    \/ \E n \in NameInputs : SetName(n)
    \/ NewDefaultEvent

SpecNames == Init /\ [][NextNames]_vars

\* C24 as claimed: check_name(name) is True exactly when name is the empty
\* string or made of alphanumeric characters only, and Event(), whose
\* class-level name is the empty string, is constructed.
C24_EmptyOrAlphanumeric ==
    /\ named.op = "check_name" /\ named.arg.type = "str" =>
         (named.ret <=> \A i \in 1..Len(named.arg.chars) :
                            char_isalnum(named.arg.chars[i]))
    /\ named.op = "Event" => named.err = "ok"

-----------------------------------------------------------------------------
(* Threads: ObjectPool.add is the wrapper of protect_objects, which reads  *)
(* the flag, and then the body, which inserts; another thread runs between *)
(* the two unless the callers hold a lock around their calls               *)

\* Mutant: a caller does not wait for the lock.
may_enter_unlocked(t) == threads.pc[t] = "idle"

\* A thread starts a call when it is in none, and, where the callers agreed
\* on a lock for the pool, when it has taken the lock.
may_enter(t) ==
    /\ threads.pc[t] = "idle"
    /\ threads.locking => threads.lock = "free"

\* The callers agree to hold one lock around every call that changes the
\* pool or writes a flag, or to hold none; no call is under way.
Discipline(b) ==
    /\ \A t \in Threads : threads.pc[t] = "idle"
    /\ threads' = [threads EXCEPT !.locking = b]
    /\ UNCHANGED <<pool_vars, rest_but_threads, last>>

\* Thread t calls pool.add(obj): the wrapper reads self.protected and
\* raises, or goes on to the body.
AddEnter(t, obj) ==
    /\ may_enter(t)
    /\ threads' = IF protected
                  THEN [threads EXCEPT !.err[t] = FrozenElements]
                  ELSE [threads EXCEPT !.pc[t] = "add", !.arg[t] = obj,
                                       !.err[t] = "ok",
                                       !.lock = IF threads.locking THEN t ELSE @]
    /\ UNCHANGED <<pool_vars, rest_but_threads, last>>

\* Thread t runs the body of add: the type check and self.__objects.add(obj).
\* ins keeps, for each insertion, whether a lock was held and what the flag
\* was when the element went in.
AddBody(t) ==
    /\ threads.pc[t] = "add"
    /\ objects' = IF isinstance_Event(threads.arg[t])
                  THEN objects \cup {threads.arg[t]} ELSE objects
    /\ threads' = [threads EXCEPT
                      !.pc[t] = "idle", !.arg[t] = NoObj,
                      !.err[t] = IF isinstance_Event(threads.arg[t])
                                 THEN "ok" ELSE WrongType,
                      !.lock = IF threads.locking THEN "free" ELSE @,
                      !.ins = IF isinstance_Event(threads.arg[t])
                              THEN @ \cup {<<threads.locking, protected>>}
                              ELSE @]
    /\ UNCHANGED <<rest_but_threads, regLog, other_objects, base, protected,
                   readonly, handlers, cls, timestamp, permitted, clock, last>>

\* Thread t assigns pool.protected = v.
WriteProtected(t, v) ==
    /\ may_enter(t)
    /\ protected' = IF BoolSetter("pool", v) = "call" THEN (v = "True")
                    ELSE protected
    /\ threads' = [threads EXCEPT
                      !.err[t] = IF BoolSetter("pool", v) = "call" THEN "ok"
                                 ELSE BoolSetter("pool", v)]
    /\ UNCHANGED <<rest_but_threads, regLog, other_objects, base, objects,
                   readonly, handlers, cls, timestamp, permitted, clock, last>>

NextThreads ==
    \/ NewEvent("PingA", TRUE)
    \/ \E b \in BOOLEAN : Discipline(b)
    \/ \E t \in Threads, obj \in Created \cup {Junk} : AddEnter(t, obj)
    \/ \E t \in Threads : AddBody(t)
    \/ \E t \in Threads, v \in FlagInputs : WriteProtected(t, v)

SpecThreads == Init /\ [][NextThreads]_vars

\* C25: where the callers hold one lock around every call of add and every
\* write of the protected flag, no element goes into the pool while the
\* flag is true (without the lock it can: C25_Witness).
C25_NoInsertWhileFrozenUnderLock == <<TRUE, TRUE>> \notin threads.ins

\* Without the lock an element went in after the flag had become true, and
\* under the lock an element went in, the flag false, and the flag is true
\* now.
C25_Witness ==
    /\ <<FALSE, TRUE>> \in threads.ins
    /\ <<TRUE, FALSE>> \in threads.ins
    /\ threads.locking
    /\ protected

-----------------------------------------------------------------------------
(* The two flags of the pool, checked under SpecMembers *)

\* C26: a new pool has both flags false; a write of protected leaves
\* readonly and the elements as they were, a write of readonly leaves
\* protected and the elements as they were, and no other operation of the
\* pool changes either flag.
C26_FlagsIndependent ==
    /\ ~protected /\ ~readonly
    /\ [][/\ last'.op = "protected" =>
                readonly' = readonly /\ objects' = objects
          /\ last'.op = "readonly" =>
                protected' = protected /\ objects' = objects
          /\ last'.op = "init" /\ last'.err = "ok" =>
                ~protected' /\ ~readonly'
          /\ ~(last'.op \in {"protected", "readonly"})
               /\ ~(last'.op = "init" /\ last'.err = "ok") =>
                protected' = protected /\ readonly' = readonly]_vars

\* The readonly flag was just cleared on a pool that holds an event and
\* whose protected flag stays set.
C26_Witness ==
    /\ last.op = "readonly" /\ last.name = "False" /\ last.err = "ok"
    /\ protected /\ ~readonly
    /\ objects # {}

-----------------------------------------------------------------------------
(* Creation on a protected pool, checked under SpecCreate *)

\* C27: create of a registered constructor on a pool whose protected flag is
\* set fails with the error add raises for frozen elements; the event has
\* been constructed by then, it is not inserted and not returned, and the
\* pool keeps its elements.
C27_CreateOnProtected ==
    [][last'.op = "create" /\ protected /\ is_callable(handlers[last'.name]) =>
        /\ last'.err = FrozenElements
        /\ last'.err = add(NextId).err
        /\ ClassMade(handlers[last'.name]) # NoClass =>
              /\ Created' = Created \cup {NextId}
              /\ NextId \notin Created
              /\ NextId \notin objects'
        /\ last'.ret = NoObj
        /\ objects' = objects]_vars

\* C27 witness: create("Ping") failed on a protected pool that holds an
\* event; the event it constructed exists and is no element of the pool.
C27_Witness ==
    /\ last.op = "create"
    /\ last.name = "Ping"
    /\ last.err = FrozenElements
    /\ protected
    /\ objects # {}
    /\ objects = last.before
    /\ (NextId - 1) \in Created \ objects

-----------------------------------------------------------------------------
(* MetaSingleton *)

\* The base class of a class, "object" where it has none of its own.
base_of(c) ==
    CASE c = "B" -> "A"
      [] c = "D" -> "C"
      [] OTHER -> "object"

\* cls.__instance read on class c: the attribute of the class itself, else
\* that of its base class, else MetaSingleton.__instance, which is None.
instance_of(c) ==
    IF singleton.own[c] # NoInstance THEN singleton.own[c]
    ELSE IF base_of(c) \in SingletonClasses THEN singleton.own[base_of(c)]
    ELSE NoInstance

\* not cls.__instance is false when bool(instance) is true.
truth_of(i) == i # NoInstance /\ i.cls # "F"

\* c(): MetaSingleton.__call__.
SingletonCall(c) ==
    LET make == ~truth_of(instance_of(c))
        new == [cls |-> c, k |-> singleton.runs[c] + 1]
        ret == IF make THEN new ELSE instance_of(c)
    IN  /\ make => singleton.runs[c] < MaxRuns
        /\ singleton' = [own |-> IF make THEN [singleton.own EXCEPT ![c] = new]
                                 ELSE singleton.own,
                         runs |-> IF make THEN [singleton.runs EXCEPT ![c] = @ + 1]
                                  ELSE singleton.runs,
                         got |-> [singleton.got EXCEPT ![c] = @ \cup {ret}]]
        /\ UNCHANGED <<pool_vars, gated, named, threads, rotary, last>>

NextSingleton == \E c \in SingletonClasses : SingletonCall(c)

SpecSingleton == Init /\ [][NextSingleton]_vars

\* C28 as claimed: the constructor of a class whose metaclass is
\* MetaSingleton runs at most once, every call of the class returns the same
\* instance, and each class, a subclass of another such class included, has
\* an instance of its own.
C28_OneInstancePerClass ==
    \A c \in SingletonClasses :
        /\ singleton.runs[c] <= 1
        /\ Cardinality(singleton.got[c]) <= 1
        /\ \A i \in singleton.got[c] : i.cls = c

-----------------------------------------------------------------------------
(* RotarySwitch *)

\* self.__range = range(0, num_positions + 1) or [0]: the range is never
\* empty when num_positions >= 0, so the alternative is never taken.
rotary_range(num) == 0..num

\* Mutant: a value outside the range is stored as the nearest position.
RotarySwitch_state_clamped(v) ==
    IF v.type # "int" THEN [err |-> "TypeError", state |-> rotary.state]
    ELSE IF rotary.wrapping /\ v.val > rotary.num
         THEN [err |-> "ok", state |-> rotary.num]
         ELSE IF rotary.wrapping /\ v.val < 0
              THEN [err |-> "ok", state |-> 0]
              ELSE [err |-> "ok", state |-> v.val]

\* The setter of RotarySwitch.state, then that of StateObject.state, whose
\* state_types is (int,): a str outside the range cannot be compared with
\* self.__range[-1] (TypeError), and is refused by isinstance otherwise.
RotarySwitch_state(v) ==
    IF rotary.wrapping /\ (v.type # "int" \/ v.val \notin rotary_range(rotary.num))
    THEN IF v.type # "int"
         THEN [err |-> "TypeError", state |-> rotary.state]
         ELSE IF v.val > rotary.num       \* state > self.__range[-1]
              THEN [err |-> "ok", state |-> 0]             \* self.__range[0]
              ELSE [err |-> "ok", state |-> rotary.num]    \* self.__range[-1]
    ELSE IF v.type # "int"
         THEN [err |-> "TypeError", state |-> rotary.state]
         ELSE [err |-> "ok", state |-> v.val]

\* r = RotarySwitch(num, wrapping): the assertion, then StateObject.__init__
\* assigns the state 0 through the setter.
NewRotary(num, wrapping) ==
    /\ rotary' = IF num >= 0
                 THEN [made |-> TRUE, num |-> num, wrapping |-> wrapping,
                       state |-> 0, op |-> "RotarySwitch", arg |-> IntState(0),
                       err |-> "ok"]
                 ELSE [rotary EXCEPT !.op = "RotarySwitch", !.arg = IntState(0),
                                     !.err = "AssertionError"]
    /\ UNCHANGED <<pool_vars, gated, named, threads, singleton, last>>

\* r.state = v
SetState(v) ==
    /\ rotary.made
    /\ rotary' = [rotary EXCEPT !.state = RotarySwitch_state(v).state,
                                !.op = "state.setter", !.arg = v,
                                !.err = RotarySwitch_state(v).err]
    /\ UNCHANGED <<pool_vars, gated, named, threads, singleton, last>>

NextRotary ==
    \/ \E num \in (0 - 1)..MaxPositions, w \in BOOLEAN : NewRotary(num, w)
    \/ \E v \in StateInputs : SetState(v)

SpecRotary == Init /\ [][NextRotary]_vars

\* C29: the state of a RotarySwitch with num_positions = n and wrapping on
\* is an integer of 0..n at all times; it is 0 when the switch has been
\* constructed; an integer of 0..n assigned to it is stored as it is, one
\* above n is stored as 0, and one below 0 is stored as n.
C29_WrappingKeepsStateInRange ==
    /\ [](rotary.made /\ rotary.wrapping => rotary.state \in 0..rotary.num)
    /\ [][/\ rotary'.op = "RotarySwitch" /\ rotary'.err = "ok" =>
                rotary'.state = 0
          /\ rotary'.op = "state.setter" /\ rotary.wrapping
               /\ rotary'.arg.type = "int" =>
                LET v == rotary'.arg.val
                    n == rotary.num
                IN  /\ rotary'.err = "ok"
                    /\ v \in 0..n => rotary'.state = v
                    /\ v > n => rotary'.state = 0
                    /\ v < 0 => rotary'.state = n]_vars

\* C29 witness: a negative integer was assigned to a wrapping switch with
\* the most positions, and the switch is at its last position.
C29_Witness ==
    /\ rotary.made /\ rotary.wrapping
    /\ rotary.num = MaxPositions
    /\ rotary.op = "state.setter"
    /\ rotary.arg.type = "int" /\ rotary.arg.val < 0
    /\ rotary.state = rotary.num

====
